---- MODULE Spec2Model ----
(***************************************************************************)
(* Client-side identity resolution and session lifecycle of the Cardea     *)
(* dashboard: lib/auth (getCurrentUser, login, logout), the AuthProvider   *)
(* session context, and the data-API callers that read the bearer token.   *)
(*                                                                         *)
(* Strings held in localStorage are modelled as sequences of tokens, so    *)
(* that JSON.stringify and JSON.parse are real conversions: the empty      *)
(* string is <<>>, a bare word is <<"word">>, and the text of an object is *)
(* <<"{", k1, v1, ..., kn, vn, "}">>.                                      *)
(***************************************************************************)
EXTENDS Integers, Sequences, FiniteSets, TLC

VARIABLES
    hostname,      \* window.location.hostname, a sequence of DNS labels
    store,         \* localStorage: a function from the keys present to their text
    swaPrincipal,  \* the managed gateway's server-side session (cookie)
    page,          \* what the tab shows: the app, or a gateway redirect in progress
    gcuPc,         \* getCurrentUser: "idle" or "fetch" (awaiting /.auth/me)
    msalInstance,  \* module-level MSAL client of AuthContext.tsx: TRUE when not null
    msalAccounts,  \* the popup library's own account cache (opaque to the app)
    initPc,        \* AuthProvider mount effect: "msal", "initialize", "done"
    user,          \* AuthProvider state: user
    isLoading,     \* AuthProvider state: isLoading
    loginPc,       \* AuthProvider.login: "idle" or "fetch"
    msPc,          \* AuthProvider.loginWithMicrosoft: "idle", "popup", "exchange"
    msResponse,    \* the popup's AuthenticationResult held across the exchange
    logoutPc,      \* AuthProvider.logout: "idle" or "popup"
    lastOp,        \* what the step just taken produced: the settlement of a call
                   \* or the Authorization header of a data-API request
    azureAuthConfigured, \* isAzureAuthEnabled(): fixed by the build's environment
    msalConstructs, \* whether `new PublicClientApplication(msalConfig)` returns
                   \* (TRUE) or throws (FALSE) in this build and browser
    since          \* history: the last login or logout to complete with no step
                   \* of another login or logout after it, the bearer token
                   \* and subject id that login was given, whether it was a
                   \* login over the session of the same account, and whether
                   \* the page has been loaded afresh since then

\* RegisterPage.tsx component state
VARIABLES
    step,          \* "info", "otp", "password", "complete"
    formData,      \* the form's fields
    otpCode,       \* the six OTP slots
    sessionId,     \* the registration session handle held by the page
    RegisterPage_isLoading,
    error,         \* the error banner, or Null
    success,       \* the success banner, or Null
    pending,       \* the registration request in flight, with its body
    returnedHandle \* history: the handle the backend returned most recently

\* hooks/useDashboardData.ts
VARIABLES
    DEV,           \* import.meta.env.DEV: fixed by the build
    dashboard,     \* the hook's state: data, isConnected, isLoading,
                   \* hasDevices, error, and retryRef.current
    inFlight,      \* fetchData calls awaiting the devices answer, and calls
                   \* awaiting the analytics answer
    failedSince    \* history: analytics fetches that failed since the last
                   \* one that succeeded

libVars == <<gcuPc>>
dashVars == <<DEV, dashboard, inFlight, failedSince>>
apVars == <<initPc, user, isLoading, loginPc, msPc, msResponse, logoutPc>>
envVars == <<azureAuthConfigured, msalConstructs>>
regVars == <<step, formData, otpCode, sessionId, RegisterPage_isLoading,
             error, success, pending, returnedHandle>>
vars == <<hostname, store, swaPrincipal, page, gcuPc, msalInstance,
          msalAccounts, initPc, user, isLoading, loginPc, msPc, msResponse,
          logoutPc, lastOp, envVars, dashVars, since, regVars>>

\* number of distinct bearer tokens the backend issues
MaxTokens == 1

\* number of distinct accounts the provider popup can sign in
MaxAccounts == 1

(***************************************************************************)
(* JavaScript values                                                       *)
(***************************************************************************)
Undefined == "<undefined>"

\* a || b on strings: undefined and "" are falsy
Or(a, b) == IF a \in {Undefined, ""} THEN b ELSE a

\* o.f on a parsed object: a missing property reads as undefined
Prop(o, f) == IF f \in DOMAIN o THEN o[f] ELSE Undefined

\* the text of a JavaScript string
Text(s) == IF s = "" THEN <<>> ELSE <<s>>

EmptyObj == [k \in {} |-> ""]

JSONScalars == {"true", "false", "5"}

RECURSIVE JSONstringifyFields(_, _)
JSONstringifyFields(o, order) ==
    IF order = <<>> THEN <<>>
    ELSE LET f == Head(order) IN
         (IF Prop(o, f) = Undefined THEN <<>> ELSE <<f, o[f]>>)
            \o JSONstringifyFields(o, Tail(order))

\* JSON.stringify of an object literal whose properties were written in `order`;
\* undefined properties are omitted
JSONstringify(o, order) == <<"{">> \o JSONstringifyFields(o, order) \o <<"}">>

IsObjectText(t) ==
    /\ Len(t) >= 2
    /\ t[1] = "{"
    /\ t[Len(t)] = "}"
    /\ (Len(t) - 2) % 2 = 0

\* JSON.parse: ok = FALSE is a SyntaxError
JSONparse(t) ==
    IF IsObjectText(t)
    THEN LET n == (Len(t) - 2) \div 2
             keys == {t[2 * i] : i \in 1..n}
             last(k) == CHOOSE i \in 1..n :
                           /\ t[2 * i] = k
                           /\ \A j \in 1..n : t[2 * j] = k => j <= i
         IN [ok |-> TRUE, isNull |-> FALSE,
             obj |-> [k \in keys |-> t[2 * last(k) + 1]]]
    ELSE IF t = <<"null">>
    THEN [ok |-> TRUE, isNull |-> TRUE, obj |-> EmptyObj]
    ELSE IF Len(t) = 1 /\ t[1] \in JSONScalars
    THEN [ok |-> TRUE, isNull |-> FALSE, obj |-> EmptyObj]
    ELSE [ok |-> FALSE, isNull |-> FALSE, obj |-> EmptyObj]

(***************************************************************************)
(* localStorage                                                            *)
(***************************************************************************)
Keys == {"cardea_auth_token", "cardea_user", "cardea_dev_auth",
         "cardea_dev_provider", "cardea_dev_user", "user", "access_token",
         "token", "cardea_onboarding_done"}

Has(s, k) == k \in DOMAIN s

\* `if (localStorage.getItem(k))`: present and not the empty string
Truthy(s, k) == Has(s, k) /\ s[k] # <<>>

setItem(s, k, v) == [x \in (DOMAIN s) \cup {k} |-> IF x = k THEN v ELSE s[x]]

removeItem(s, k) == [x \in (DOMAIN s) \ {k} |-> s[x]]

RECURSIVE removeItems(_, _)
removeItems(s, ks) ==
    IF ks = <<>> THEN s ELSE removeItems(removeItem(s, Head(ks)), Tail(ks))

EmptyStore == [k \in {} |-> <<>>]

(***************************************************************************)
(* lib/auth: hostname test                                                 *)
(***************************************************************************)
LabelsContainingCardea == {"cardea", "cardea-dashboard"}

isAzureHosted(h) ==
    \/ \E i \in 1..(Len(h) - 1) : h[i] = "azurestaticapps" /\ h[i + 1] = "net"
    \/ \E i \in 1..Len(h) : h[i] \in LabelsContainingCardea
    \/ Len(h) >= 3 /\ h[Len(h) - 1] = "azurewebsites" /\ h[Len(h)] = "net"

(***************************************************************************)
(* lib/auth: getCurrentUser                                                *)
(***************************************************************************)
NullUser == [null |-> TRUE]

NoPrincipal == [null |-> TRUE]

\* claims?.reduce((acc, claim) => { acc[claim.typ] = claim.val; ... }, {})
ReduceClaims(cs) ==
    LET typs == {cs[i][1] : i \in 1..Len(cs)}
        last(t) == CHOOSE i \in 1..Len(cs) :
                      /\ cs[i][1] = t
                      /\ \A j \in 1..Len(cs) : cs[j][1] = t => j <= i
    IN [t \in typs |-> cs[last(t)][2]]

\* the object returned for a non-null clientPrincipal; `[] || x` is `[]`
ManagedIdentity(p) ==
    [userId |-> p.userId,
     userDetails |-> p.userDetails,
     userRoles |-> IF p.rolesGiven THEN p.userRoles ELSE <<"authenticated">>,
     identityProvider |-> p.identityProvider,
     claimsGiven |-> p.claimsGiven,
     claims |-> IF p.claimsGiven THEN ReduceClaims(p.claims) ELSE EmptyObj]

\* a mapping that labels the identity with the email whatever the record says
LocalIdentityEmailLabel(o) ==
    [userId |-> Or(Prop(o, "id"), "local-user"),
     userDetails |-> Prop(o, "email"),
     userRoles |-> <<"authenticated">>,
     identityProvider |-> "local",
     claimsGiven |-> TRUE,
     claims |-> [k \in {"name"} |-> Prop(o, "email")]]

LocalIdentity(o) ==
    [userId |-> Or(Prop(o, "id"), "local-user"),
     userDetails |-> Prop(o, "email"),
     userRoles |-> <<"authenticated">>,
     identityProvider |-> "local",
     claimsGiven |-> TRUE,
     claims |-> [k \in {"name"} |-> Or(Prop(o, "full_name"), Prop(o, "email"))]]

DevIdentity(o) ==
    [userId |-> "dev-user-001",
     userDetails |-> Or(Prop(o, "email"), "dev@cardea.local"),
     userRoles |-> <<"authenticated", "admin">>,
     identityProvider |-> "dev",
     claimsGiven |-> TRUE,
     claims |-> [k \in {"name"} |-> Or(Prop(o, "name"), "Local User")]]

\* userDetails.split('@')[0] with its first character in upper case, for the
\* addresses that occur
EmailName(userDetails) ==
    CASE userDetails = "a@b.com" -> "A"
      [] userDetails = "x@y.com" -> "X"
      [] userDetails = "dev@cardea.local" -> "Dev"
      [] userDetails \in {"user@microsoft.local", "user@google.local",
                          "user@github.local"} -> "User"
      [] OTHER -> userDetails

JSTruthy(v) == v \notin {Undefined, ""}

\* getDisplayName(user): claims.name, then claims.preferred_username, then
\* the capitalised local part of userDetails, then 'User'; 'Guest' for null
getDisplayName(u) ==
    IF u = NullUser THEN "Guest"
    ELSE IF u.claimsGiven /\ JSTruthy(Prop(u.claims, "name"))
    THEN u.claims["name"]
    ELSE IF u.claimsGiven /\ JSTruthy(Prop(u.claims, "preferred_username"))
    THEN u.claims["preferred_username"]
    ELSE IF JSTruthy(u.userDetails) THEN EmailName(u.userDetails)
    ELSE "User"

\* a settled call: status is "returned" or "threw"; s is the store it leaves
Settled(status, u, s) == [status |-> status, user |-> u, store |-> s]

\* the developer bypass without its hostname guard
DevStrategyAnyHost(s, h) ==
    IF /\ Has(s, "cardea_dev_auth")
       /\ s["cardea_dev_auth"] = <<"true">>
       /\ Truthy(s, "cardea_dev_user")
    THEN LET p == JSONparse(s["cardea_dev_user"]) IN
         IF p.ok /\ ~p.isNull
         THEN Settled("returned", DevIdentity(p.obj), s)
         ELSE Settled("threw", NullUser, s)
    ELSE Settled("returned", NullUser, s)

\* STRATEGY 3: the parse of the simulated user is outside any try block, and
\* a property read on a parsed null is a TypeError
DevStrategy(s, h) ==
    IF /\ ~isAzureHosted(h)
       /\ Has(s, "cardea_dev_auth")
       /\ s["cardea_dev_auth"] = <<"true">>
       /\ Truthy(s, "cardea_dev_user")
    THEN LET p == JSONparse(s["cardea_dev_user"]) IN
         IF p.ok /\ ~p.isNull
         THEN Settled("returned", DevIdentity(p.obj), s)
         ELSE Settled("threw", NullUser, s)
    ELSE Settled("returned", NullUser, s)

\* a local step that also drops a token stored without a user record
LocalStrategyDropsOrphanToken(s, h) ==
    IF Truthy(s, "cardea_auth_token") /\ Truthy(s, "cardea_user")
    THEN LET p == JSONparse(s["cardea_user"]) IN
         IF p.ok /\ ~p.isNull
         THEN Settled("returned", LocalIdentity(p.obj), s)
         ELSE DevStrategy(removeItems(s, <<"cardea_auth_token", "cardea_user">>), h)
    ELSE DevStrategy(removeItem(s, "cardea_auth_token"), h)

\* STRATEGY 2, then STRATEGY 3: a parse failure or a property read on a parsed
\* null lands in the catch block, which removes both keys
LocalStrategy(s, h) ==
    IF Truthy(s, "cardea_auth_token") /\ Truthy(s, "cardea_user")
    THEN LET p == JSONparse(s["cardea_user"]) IN
         IF p.ok /\ ~p.isNull
         THEN Settled("returned", LocalIdentity(p.obj), s)
         ELSE DevStrategy(removeItems(s, <<"cardea_auth_token", "cardea_user">>), h)
    ELSE DevStrategy(s, h)

\* outcomes of `fetch('/.auth/me')` followed by `response.json()`
MeOutcomes == {"ok", "notok", "neterr", "badjson"}

\* the cascade with the stored local record consulted before the gateway
ManagedStrategyLocalFirst(s, h, me, principal) ==
    LET r == LocalStrategy(s, h) IN
    IF r.status = "returned" /\ r.user # NullUser /\ r.user.identityProvider = "local"
    THEN r
    ELSE IF me = "ok" /\ principal # NoPrincipal
    THEN Settled("returned", ManagedIdentity(principal), s)
    ELSE r

\* STRATEGY 1 after the fetch has settled with outcome `me`
ManagedStrategy(s, h, me, principal) ==
    IF me = "ok" /\ principal # NoPrincipal
    THEN Settled("returned", ManagedIdentity(principal), s)
    ELSE LocalStrategy(s, h)

AppShown == page.at = "app"

\* op: the operation; status: how it settled; cause: what the collaborator
\* answered; message: the Error's message; header: the Authorization header
\* sent; user: the value getCurrentUser resolved to
Outcome(op, status, cause, message, header, u) ==
    [op |-> op, status |-> status, cause |-> cause, message |-> message,
     header |-> header, user |-> u]

Since(what, token, id) ==
    [what |-> what, reloaded |-> FALSE, token |-> token, id |-> id,
     again |-> FALSE]

NoSince == Since("none", "", "")

LoggedOut == Since("logout", "", "")

\* the exchange of a popup login was refused
Refused == Since("refused", "", "")

NoOp == Outcome("none", "none", "", "", <<>>, NullUser)

\* the promise settles: r.user is the value it resolves to
Settle(r, me) ==
    /\ store' = r.store
    /\ lastOp' = Outcome("getCurrentUser", r.status, me, "", <<>>, r.user)

\* getCurrentUser() up to its first await; off managed hosting there is none
getCurrentUserCall ==
    /\ AppShown
    /\ gcuPc = "idle"
    /\ IF isAzureHosted(hostname)
       THEN /\ gcuPc' = "fetch"
            /\ lastOp' = NoOp
            /\ store' = store
       ELSE /\ gcuPc' = "idle"
            /\ Settle(LocalStrategy(store, hostname), "skipped")
    /\ UNCHANGED <<hostname, swaPrincipal, page, msalInstance, msalAccounts,
                   apVars, envVars, dashVars, since, regVars>>

\* the /.auth/me request settles and getCurrentUser runs to its return
getCurrentUserFetched ==
    /\ AppShown
    /\ gcuPc = "fetch"
    /\ \E me \in MeOutcomes :
          Settle(ManagedStrategy(store, hostname, me, swaPrincipal), me)
    /\ gcuPc' = "idle"
    /\ UNCHANGED <<hostname, swaPrincipal, page, msalInstance, msalAccounts,
                   apVars, envVars, dashVars, since, regVars>>

(***************************************************************************)
(* Page loads and the managed gateway                                      *)
(***************************************************************************)
NoResponse == [null |-> TRUE]

\* authConfig.ts is evaluated when the bundle is loaded, before main.tsx
\* renders anything: its module-level `new PublicClientApplication(msalConfig)`
\* is outside any try block, so a constructor that throws ends the load
ModuleLoadThrows == azureAuthConfigured /\ ~msalConstructs

\* what the tab shows once the document at `path` has loaded
Document(path, by) ==
    [at |-> IF ModuleLoadThrows THEN "crashed" ELSE "app", path |-> path, by |-> by]

\* a full page load: every in-memory value starts over (module-level
\* msalInstance, AuthProvider's useState initial values, pending callbacks);
\* localStorage, the library cache and the gateway session survive
FreshMemory ==
    /\ gcuPc' = "idle"
    /\ msalInstance' = FALSE
    /\ initPc' = "msal"
    /\ user' = NullUser
    /\ isLoading' = TRUE
    /\ loginPc' = "idle"
    /\ msPc' = "idle"
    /\ msResponse' = NoResponse
    /\ logoutPc' = "idle"
    /\ lastOp' = NoOp

\* the document loads after a same-origin navigation, or the user reloads
PageLoad ==
    /\ page.at \in {"app", "navigating", "crashed"}
    /\ page' = Document(page.path, page.by)
    /\ FreshMemory
    /\ since' = [since EXCEPT !.reloaded = since.what # "none"]
    /\ UNCHANGED <<hostname, store, swaPrincipal, msalAccounts, envVars, dashVars,
                   regVars>>

\* identityProvider the gateway reports for each login endpoint
GatewayProvider(provider) ==
    CASE provider = "microsoft" -> "aad"
      [] provider = "google" -> "google"
      [] provider = "github" -> "github"

Principal(provider) ==
    [userId |-> "u1", userDetails |-> "x@y.com",
     rolesGiven |-> TRUE, userRoles |-> <<"anonymous", "authenticated">>,
     identityProvider |-> GatewayProvider(provider),
     claimsGiven |-> FALSE, claims |-> <<>>]

\* GET /.auth/login/{provider}: the platform signs the visitor in (or the
\* visitor gives up) and redirects to post_login_redirect_uri
GatewayLogin ==
    /\ page.at = "gateway_login"
    /\ \E granted \in BOOLEAN :
          swaPrincipal' = IF granted THEN Principal(page.provider) ELSE swaPrincipal
    /\ page' = Document(page.path, page.by)
    /\ FreshMemory
    /\ since' = NoSince
    /\ UNCHANGED <<hostname, store, msalAccounts, envVars, dashVars, regVars>>

\* GET /.auth/logout: the platform ends its session and redirects to
\* post_logout_redirect_uri
GatewayLogout ==
    /\ page.at = "gateway_logout"
    /\ swaPrincipal' = NoPrincipal
    /\ page' = Document(page.path, page.by)
    /\ FreshMemory
    /\ since' = [LoggedOut EXCEPT !.reloaded = TRUE]
    /\ UNCHANGED <<hostname, store, msalAccounts, envVars, dashVars, regVars>>

(***************************************************************************)
(* lib/auth: login and logout                                              *)
(***************************************************************************)
\* the provider argument; 'github' behaves as 'google' does
Providers == {"microsoft", "google"}

DevUserFields == <<"name", "email", "provider">>

\* JSON.stringify({ name: 'Local User', email: `user@${provider}.local`, provider })
DevUserText(provider) ==
    JSONstringify([name |-> "Local User",
                   email |-> CASE provider = "microsoft" -> "user@microsoft.local"
                               [] provider = "google" -> "user@google.local"
                               [] provider = "github" -> "user@github.local",
                   provider |-> provider], DevUserFields)

\* login(provider, redirectPath = '/dashboard')
login ==
    /\ AppShown
    /\ \E provider \in Providers :
          IF isAzureHosted(hostname)
          THEN /\ page' = [at |-> "gateway_login", path |-> "/dashboard",
                           by |-> "login", provider |-> provider]
               /\ store' = store
          ELSE /\ store' = setItem(setItem(setItem(store,
                               "cardea_dev_auth", <<"true">>),
                               "cardea_dev_provider", <<provider>>),
                               "cardea_dev_user", DevUserText(provider))
               /\ page' = [at |-> "navigating", path |-> "/dashboard", by |-> "login"]
    /\ since' = NoSince
    /\ lastOp' = NoOp
    /\ UNCHANGED <<hostname, swaPrincipal, libVars, msalInstance,
                   msalAccounts, apVars, envVars, dashVars, regVars>>

LogoutKeys == <<"cardea_auth_token", "cardea_user", "cardea_dev_auth",
                "cardea_dev_provider", "cardea_dev_user">>

\* a logout that empties localStorage
logoutClearsStorage ==
    /\ AppShown
    /\ store' = EmptyStore
    /\ page' = IF isAzureHosted(hostname)
               THEN [at |-> "gateway_logout", path |-> "/", by |-> "logout"]
               ELSE [at |-> "navigating", path |-> "/", by |-> "logout"]
    /\ since' = LoggedOut
    /\ lastOp' = NoOp
    /\ UNCHANGED <<hostname, swaPrincipal, libVars, msalInstance,
                   msalAccounts, apVars, envVars, dashVars, regVars>>

\* logout(redirectPath = '/login')
logout ==
    /\ AppShown
    /\ store' = removeItems(store, LogoutKeys)
    /\ page' = IF isAzureHosted(hostname)
               THEN [at |-> "gateway_logout", path |-> "/", by |-> "logout"]
               ELSE [at |-> "navigating", path |-> "/", by |-> "logout"]
    /\ since' = LoggedOut
    /\ lastOp' = NoOp
    /\ UNCHANGED <<hostname, swaPrincipal, libVars, msalInstance,
                   msalAccounts, apVars, envVars, dashVars, regVars>>


(***************************************************************************)
(* AuthContext.tsx: AuthProvider                                           *)
(***************************************************************************)
TokenNames == <<"t1", "t2", "t3", "t4">>

Tokens == {TokenNames[i] : i \in 1..MaxTokens}

\* user records the backend's /api/auth/login answers with
BackendUsers ==
    {[id |-> "1", email |-> "a@b.com", full_name |-> "A B"],
     [id |-> "2", email |-> "c@d.com", full_name |-> ""]}

\* accounts the provider popup can sign in
MsAccountNames == <<"ms1", "ms2", "ms3">>

MsAccounts ==
    {[localAccountId |-> MsAccountNames[i], username |-> "m@s.com", name |-> ""] :
        i \in 1..MaxAccounts}

UserFields == <<"id", "email", "name", "provider">>

SessionKeys == <<"user", "access_token">>

Rejected(op, cause, message) ==
    Outcome(op, "rejected", cause, message, <<>>, NullUser)

Resolved(op) == Outcome(op, "resolved", "ok", "", <<>>, NullUser)

\* a data-API request leaves with this Authorization header (<<>>: none)
Sent(op, header) == Outcome(op, "sent", "", "", header, NullUser)

\* the context's operations are reachable from event handlers, and React runs
\* the mount effect before it handles the first event
Mounted == AppShown /\ initPc # "msal"

\* the value setUser receives from JSON.parse(storedUser)
ParsedUser(p) == IF p.isNull THEN NullUser ELSE p.obj

AccountUser(a) ==
    [id |-> a.localAccountId, email |-> a.username,
     name |-> Or(a.name, a.username), provider |-> "azure"]

\* what checkExistingSession leaves in `user`, given the value before
SessionUser(s, instance, accounts, before) ==
    IF Truthy(s, "user") /\ Truthy(s, "access_token")
    THEN LET p == JSONparse(s["user"]) IN
         IF p.ok THEN ParsedUser(p) ELSE before
    ELSE IF instance /\ Len(accounts) > 0
    THEN AccountUser(accounts[1])
    ELSE before

\* checkExistingSession(): no await inside, so it runs in one piece; the
\* catch block swallows a stored text that does not parse
checkExistingSession(instance) ==
    /\ user' = SessionUser(store, instance, msalAccounts, user)
    /\ isLoading' = FALSE
    /\ initPc' = "done"

\* the mount effect's init() up to `await msalInstance.initialize()`: the
\* module-level instance is assigned as soon as it is constructed. When the
\* build disables Azure auth nothing is awaited on the way, and init() runs
\* on through checkExistingSession() before any other handler can run
AuthProvider_init ==
    /\ AppShown
    /\ initPc = "msal"
    /\ IF azureAuthConfigured
       THEN /\ msalInstance' = TRUE
            /\ initPc' = "initialize"
            /\ UNCHANGED <<user, isLoading>>
       ELSE /\ msalInstance' = FALSE
            /\ checkExistingSession(FALSE)
    /\ lastOp' = NoOp
    /\ UNCHANGED <<hostname, store, swaPrincipal, page, libVars,
                   msalAccounts, loginPc, msPc, msResponse, logoutPc,
                   envVars, dashVars, since, regVars>>

\* initialize() settles: a rejection lands in the catch block, which sets the
\* instance back to null; init() then runs on through checkExistingSession()
initializeMsal ==
    /\ AppShown
    /\ initPc = "initialize"
    /\ \E ok \in BOOLEAN :
          /\ msalInstance' = ok
          /\ checkExistingSession(ok)
    /\ lastOp' = NoOp
    /\ UNCHANGED <<hostname, store, swaPrincipal, page, libVars,
                   msalAccounts, loginPc, msPc, msResponse, logoutPc,
                   envVars, dashVars, since, regVars>>

\* login(email, password) up to `await fetch(...)`
loginCall ==
    /\ Mounted
    /\ loginPc = "idle"
    /\ isLoading' = TRUE
    /\ loginPc' = "fetch"
    /\ since' = NoSince
    /\ lastOp' = NoOp
    /\ UNCHANGED <<hostname, store, swaPrincipal, page, libVars,
                   msalInstance, msalAccounts, initPc, user, msPc,
                   msResponse, logoutPc, envVars, dashVars, regVars>>

TraditionalUser(u) ==
    [id |-> u.id, email |-> u.email,
     name |-> Or(u.full_name, u.email), provider |-> "traditional"]

\* the session in place is the credential session of the account `u`
SameAccount(session, u) ==
    /\ Prop(session, "provider") = "traditional"
    /\ Prop(session, "email") = u.email

\* a login that keeps the token it finds and stores the new one beside it
PersistSessionBeside(s, userData, token) ==
    IF Has(s, "access_token")
    THEN setItem(setItem(s, "user", JSONstringify(userData, UserFields)),
                 "token", Text(token))
    ELSE setItem(setItem(s, "user", JSONstringify(userData, UserFields)),
                 "access_token", Text(token))

\* what a successful login or exchange writes
PersistSession(s, userData, token) ==
    setItem(setItem(s, "user", JSONstringify(userData, UserFields)),
            "access_token", Text(token))

\* the backend answers 2xx with {access_token, user}
loginOk ==
    /\ AppShown
    /\ loginPc = "fetch"
    /\ \E u \in BackendUsers, token \in Tokens :
          /\ user' = TraditionalUser(u)
          /\ store' = PersistSession(store, TraditionalUser(u), token)
          /\ since' = [Since("login", token, u.id) EXCEPT
                           !.again = SameAccount(user, u)]
    /\ isLoading' = FALSE
    /\ loginPc' = "idle"
    /\ lastOp' = Resolved("login")
    /\ UNCHANGED <<hostname, swaPrincipal, page, libVars, msalInstance,
                   msalAccounts, initPc, msPc, msResponse, logoutPc, envVars, dashVars,
                   regVars>>

\* bodies of a non-2xx answer: {detail}, {} and a body that is not JSON
ErrorBodies == {"detail", "nodetail", "notjson"}

BackendDetail == "Incorrect email or password"

\* the Error a failed login is rejected with
LoginError(outcome) ==
    CASE outcome = "detail" -> BackendDetail
      [] outcome = "nodetail" -> "Login failed"
      [] outcome = "notjson" -> "SyntaxError"
      [] outcome = "neterr" -> "TypeError: Failed to fetch"

\* a failure path that also drops the session it found
loginFailClearsSession ==
    /\ AppShown
    /\ loginPc = "fetch"
    /\ \E outcome \in ErrorBodies \cup {"neterr"} :
          lastOp' = Rejected("login", outcome, LoginError(outcome))
    /\ user' = NullUser
    /\ store' = removeItems(store, SessionKeys)
    /\ isLoading' = FALSE
    /\ loginPc' = "idle"
    /\ since' = NoSince
    /\ UNCHANGED <<hostname, swaPrincipal, page, libVars, msalInstance,
                   msalAccounts, initPc, msPc, msResponse, logoutPc, envVars, dashVars,
                   regVars>>

\* the backend answers non-2xx, or the request fails at network level
loginFail ==
    /\ AppShown
    /\ loginPc = "fetch"
    /\ \E outcome \in ErrorBodies \cup {"neterr"} :
          lastOp' = Rejected("login", outcome, LoginError(outcome))
    /\ isLoading' = FALSE
    /\ loginPc' = "idle"
    /\ since' = NoSince
    /\ UNCHANGED <<hostname, store, swaPrincipal, page, libVars,
                   msalInstance, msalAccounts, initPc, user, msPc,
                   msResponse, logoutPc, envVars, dashVars, regVars>>


\* loginWithMicrosoft() up to `await msalInstance.loginPopup(...)`; without an
\* instance it throws before anything else, and the library rejects loginPopup
\* at once on an instance whose initialize() has not resolved yet
loginWithMicrosoftCall ==
    /\ Mounted
    /\ msPc = "idle"
    /\ IF ~msalInstance
       THEN /\ lastOp' = Rejected("loginWithMicrosoft", "noinstance",
                                  "Microsoft authentication is not configured")
            /\ UNCHANGED <<isLoading, msPc, since>>
       ELSE IF initPc = "initialize"
       THEN /\ lastOp' = Rejected("loginWithMicrosoft", "uninitialized",
                                  "uninitialized_public_client_application")
            /\ isLoading' = FALSE
            /\ since' = NoSince
            /\ msPc' = msPc
       ELSE /\ isLoading' = TRUE
            /\ msPc' = "popup"
            /\ lastOp' = NoOp
            /\ since' = NoSince
    /\ UNCHANGED <<hostname, store, swaPrincipal, page, libVars,
                   msalInstance, msalAccounts, initPc, user, loginPc,
                   msResponse, logoutPc, envVars, dashVars, regVars>>

\* the library records the signed-in account in its own cache
CacheAccount(accounts, a) ==
    IF \E i \in 1..Len(accounts) : accounts[i] = a
    THEN accounts
    ELSE Append(accounts, a)

\* the popup succeeds: the id token is posted to /api/auth/azure/login
loginWithMicrosoftPopupOk ==
    /\ AppShown
    /\ msPc = "popup"
    /\ \E a \in MsAccounts :
          /\ msalAccounts' = CacheAccount(msalAccounts, a)
          /\ msResponse' = [account |-> a, idToken |-> "idtoken"]
    /\ msPc' = "exchange"
    /\ since' = NoSince
    /\ lastOp' = NoOp
    /\ UNCHANGED <<hostname, store, swaPrincipal, page, libVars,
                   msalInstance, initPc, user, isLoading, loginPc, logoutPc,
                   envVars, dashVars, regVars>>

\* the popup is dismissed or fails: loginPopup rejects
loginWithMicrosoftPopupFail ==
    /\ AppShown
    /\ msPc = "popup"
    /\ lastOp' = Rejected("loginWithMicrosoft", "popup", "user_cancelled")
    /\ isLoading' = FALSE
    /\ msPc' = "idle"
    /\ since' = NoSince
    /\ UNCHANGED <<hostname, store, swaPrincipal, page, libVars,
                   msalInstance, msalAccounts, initPc, user, loginPc,
                   msResponse, logoutPc, envVars, dashVars, regVars>>

\* the exchange endpoint answers 2xx with {access_token}
loginWithMicrosoftOk ==
    /\ AppShown
    /\ msPc = "exchange"
    /\ \E token \in Tokens :
          /\ user' = AccountUser(msResponse.account)
          /\ store' = PersistSession(store, AccountUser(msResponse.account), token)
          /\ since' = Since("popup", token, msResponse.account.localAccountId)
    /\ isLoading' = FALSE
    /\ msPc' = "idle"
    /\ msResponse' = NoResponse
    /\ lastOp' = Resolved("loginWithMicrosoft")
    /\ UNCHANGED <<hostname, swaPrincipal, page, libVars, msalInstance,
                   msalAccounts, initPc, loginPc, logoutPc, envVars, dashVars, regVars>>

\* `response.json().catch(() => ({}))`: a body that is not JSON reads as {}
ExchangeError(outcome) ==
    CASE outcome = "detail" -> BackendDetail
      [] outcome = "nodetail" -> "Backend authentication failed"
      [] outcome = "notjson" -> "Backend authentication failed"
      [] outcome = "neterr" -> "TypeError: Failed to fetch"

\* a failure path without the `response.ok` test: the popup's account becomes
\* the session although the exchange was refused
loginWithMicrosoftFailPersists ==
    /\ AppShown
    /\ msPc = "exchange"
    /\ \E outcome \in ErrorBodies \cup {"neterr"} :
          lastOp' = Rejected("loginWithMicrosoft", outcome, ExchangeError(outcome))
    /\ user' = AccountUser(msResponse.account)
    /\ store' = PersistSession(store, AccountUser(msResponse.account), Undefined)
    /\ isLoading' = FALSE
    /\ msPc' = "idle"
    /\ msResponse' = NoResponse
    /\ since' = NoSince
    /\ UNCHANGED <<hostname, swaPrincipal, page, libVars, msalInstance,
                   msalAccounts, initPc, loginPc, logoutPc, envVars, dashVars, regVars>>

\* the exchange endpoint answers non-2xx, or the request fails at network level
loginWithMicrosoftFail ==
    /\ AppShown
    /\ msPc = "exchange"
    /\ \E outcome \in ErrorBodies \cup {"neterr"} :
          lastOp' = Rejected("loginWithMicrosoft", outcome, ExchangeError(outcome))
    /\ isLoading' = FALSE
    /\ msPc' = "idle"
    /\ msResponse' = NoResponse
    /\ since' = Refused
    /\ UNCHANGED <<hostname, store, swaPrincipal, page, libVars,
                   msalInstance, msalAccounts, initPc, user, loginPc,
                   logoutPc, envVars, dashVars, regVars>>

\* loginWithGoogle(): always throws, with no await on the way
loginWithGoogle ==
    /\ Mounted
    /\ \E clientId \in BOOLEAN :
          lastOp' = Rejected("loginWithGoogle", "unsupported",
                             IF clientId
                             THEN "Please use the Google Sign-In button component"
                             ELSE "Google Client ID not configured")
    /\ isLoading' = FALSE
    /\ UNCHANGED <<hostname, store, swaPrincipal, page, libVars,
                   msalInstance, msalAccounts, initPc, user, loginPc, msPc,
                   msResponse, logoutPc, envVars, dashVars, since, regVars>>

\* logout() of the context up to `await msalInstance.logoutPopup(...)`, or to
\* its end when that call is not made
AuthProvider_logoutCall ==
    /\ Mounted
    /\ logoutPc = "idle"
    /\ store' = removeItems(store, SessionKeys)
    /\ IF /\ Prop(user, "provider") = "azure"
          /\ msalInstance
          /\ Len(msalAccounts) > 0
       THEN /\ isLoading' = TRUE
            /\ logoutPc' = "popup"
            /\ lastOp' = NoOp
            /\ since' = NoSince
            /\ user' = user
       ELSE /\ user' = NullUser
            /\ isLoading' = FALSE
            /\ logoutPc' = "idle"
            /\ lastOp' = Resolved("logout")
            /\ since' = LoggedOut
    /\ UNCHANGED <<hostname, swaPrincipal, page, libVars, msalInstance,
                   msalAccounts, initPc, loginPc, msPc, msResponse, envVars, dashVars,
                   regVars>>

\* logoutPopup resolves: the library has dropped the account it was given
AuthProvider_logoutPopupOk ==
    /\ AppShown
    /\ logoutPc = "popup"
    /\ msalAccounts' = IF msalAccounts = <<>> THEN <<>> ELSE Tail(msalAccounts)
    /\ user' = NullUser
    /\ isLoading' = FALSE
    /\ logoutPc' = "idle"
    /\ lastOp' = Resolved("logout")
    /\ since' = LoggedOut
    /\ UNCHANGED <<hostname, store, swaPrincipal, page, libVars,
                   msalInstance, initPc, loginPc, msPc, msResponse, envVars, dashVars,
                   regVars>>

\* logoutPopup rejects (popup blocked or closed): logout rethrows
AuthProvider_logoutPopupFail ==
    /\ AppShown
    /\ logoutPc = "popup"
    /\ isLoading' = FALSE
    /\ logoutPc' = "idle"
    /\ lastOp' = Rejected("logout", "popup", "popup_window_error")
    /\ UNCHANGED <<hostname, store, swaPrincipal, page, libVars,
                   msalInstance, msalAccounts, initPc, user, loginPc, msPc,
                   msResponse, envVars, dashVars, since, regVars>>

(***************************************************************************)
(* Data-API callers                                                        *)
(***************************************************************************)
\* hooks/useDashboardData.ts fetchData: the header of the devices request
useDashboardData_fetchData ==
    /\ AppShown
    /\ \E isAuthenticated \in BOOLEAN, isDev \in BOOLEAN :
          IF ~isAuthenticated /\ ~isDev
          THEN lastOp' = NoOp
          ELSE lastOp' = Sent("useDashboardData.fetchData",
                              IF Truthy(store, "cardea_auth_token")
                              THEN <<"Bearer">> \o store["cardea_auth_token"]
                              ELSE <<>>)
    /\ UNCHANGED <<hostname, store, swaPrincipal, page, libVars,
                   msalInstance, msalAccounts, apVars, envVars, dashVars, since,
                   regVars>>

\* the text `${token}` of a value read with getItem
TemplateText(s, k) ==
    IF Has(s, k) THEN s[k] ELSE <<"null">>

\* App.tsx fetchData: the header of the devices request
App_fetchData ==
    /\ AppShown
    /\ \E isAuthenticated \in BOOLEAN :
          IF ~isAuthenticated
          THEN lastOp' = NoOp
          ELSE lastOp' = Sent("App.fetchData",
                              <<"Bearer">> \o TemplateText(store, "token"))
    /\ UNCHANGED <<hostname, store, swaPrincipal, page, libVars,
                   msalInstance, msalAccounts, apVars, envVars, dashVars, since,
                   regVars>>

(***************************************************************************)
(* hooks/useOnboarding.ts: the onboarding tour                             *)
(***************************************************************************)
\* values of the hasDevices argument
HasDevicesValues == {"null", "false", "true"}

\* the effect on [hasDevices]: the tour is shown when there are no devices and
\* the flag is not stored (showOnboarding starts as false)
useOnboarding_effect ==
    /\ AppShown
    /\ \E hasDevices \in HasDevicesValues :
          lastOp' = Outcome("useOnboarding",
                            IF /\ hasDevices = "false"
                               /\ ~Truthy(store, "cardea_onboarding_done")
                            THEN "shown" ELSE "hidden",
                            hasDevices, "", <<>>, NullUser)
    /\ UNCHANGED <<hostname, store, swaPrincipal, page, libVars,
                   msalInstance, msalAccounts, apVars, envVars, dashVars, since,
                   regVars>>

\* skip(), which nextStep() calls on the last step: the tour is dismissed and
\* the flag is stored
useOnboarding_skip ==
    /\ AppShown
    /\ store' = setItem(store, "cardea_onboarding_done", <<"true">>)
    /\ lastOp' = Outcome("useOnboarding", "hidden", "skip", "", <<>>, NullUser)
    /\ UNCHANGED <<hostname, swaPrincipal, page, libVars, msalInstance,
                   msalAccounts, apVars, envVars, dashVars, since, regVars>>

(***************************************************************************)
(* ProtectedRoute.tsx: the route guard                                     *)
(***************************************************************************)
\* what the session context hands to its consumers
useAuth == [isAuthenticated |-> user # NullUser, isLoading |-> isLoading]

\* the routes main.tsx wraps in <ProtectedRoute>
ProtectedPaths == {"/dashboard", "/devices"}

\* a guard that only looks at the session once it is asked to deny
ProtectedRouteIgnoresLoading(auth, isDev) ==
    IF ~isDev /\ ~auth.isAuthenticated THEN "Navigate" ELSE "children"

\* what ProtectedRoute returns: the spinner, <Navigate to="/login">, or its
\* children; isDev is import.meta.env.DEV
ProtectedRoute(auth, isDev) ==
    IF auth.isLoading THEN "spinner"
    ELSE IF ~isDev /\ ~auth.isAuthenticated THEN "Navigate"
    ELSE "children"

\* the guard is on screen
GuardShown == AppShown /\ page.path \in ProtectedPaths

Rendered(isDev, element) ==
    Outcome("ProtectedRoute", element, IF isDev THEN "DEV" ELSE "PROD", "",
            <<>>, NullUser)

\* React renders the guard with the context's current value
ProtectedRoute_render ==
    /\ GuardShown
    /\ \E isDev \in BOOLEAN :
          lastOp' = Rendered(isDev, ProtectedRoute(useAuth, isDev))
    /\ UNCHANGED <<hostname, store, swaPrincipal, page, libVars,
                   msalInstance, msalAccounts, apVars, envVars, dashVars, since,
                   regVars>>

(***************************************************************************)
(* RegisterPage.tsx: the three-step registration flow                      *)
(*                                                                         *)
(* The page's strings are sequences of UTF-16 code units, the unit that    *)
(* String.length, slice and split("") count in.                            *)
(***************************************************************************)
Null == "<null>"

\* everything outside RegisterPage and the two things it shares with the rest
sessionVars == <<hostname, swaPrincipal, gcuPc, msalInstance, msalAccounts,
                 initPc, user, isLoading, loginPc, msPc, msResponse, logoutPc,
                 envVars, dashVars, since>>

\* the route /register is on screen
RegisterShown == AppShown /\ page.path = "/register"

\* number of distinct session handles the backend hands out
MaxHandles == 2

HandleNames == <<"h1", "h2", "h3", "h4">>

Handles == {HandleNames[i] : i \in 1..MaxHandles}

NoRequest == [to |-> "none"]

\* fetch(`${API_URL}/api/auth/${to}`, {method: "POST", body})
Request(to, body) == [to |-> to, body |-> body]

\* an event of the page: the handler that ran, how it ended, the text it read
RegisterEvent(op, status, text) ==
    [op |-> op, status |-> status, text |-> text, cause |-> "",
     message |-> "", header |-> <<>>, user |-> NullUser]

EmptyOtp == [i \in 1..6 |-> <<>>]

\* the useState initial values
RegisterPageInitial ==
    /\ step = "info"
    /\ formData = [email |-> <<>>, givenName |-> <<>>, familyName |-> <<>>,
                   password |-> <<>>, confirmPassword |-> <<>>]
    /\ otpCode = EmptyOtp
    /\ sessionId = Null
    /\ RegisterPage_isLoading = FALSE
    /\ error = Null
    /\ success = Null
    /\ pending = NoRequest
    /\ returnedHandle = Null

\* the fields each step renders
FieldsOf(s) ==
    CASE s = "info" -> {"email", "givenName", "familyName"}
      [] s = "password" -> {"password", "confirmPassword"}
      [] OTHER -> {}

\* `if (error) setError(null)`
ClearedError == IF error # Null THEN Null ELSE error

handleChange(name, value) ==
    /\ RegisterShown
    /\ name \in FieldsOf(step)
    /\ formData' = [formData EXCEPT ![name] = value]
    /\ error' = ClearedError
    /\ lastOp' = NoOp
    /\ UNCHANGED <<store, page, sessionVars, step, otpCode, sessionId,
                   RegisterPage_isLoading, success, pending, returnedHandle>>

Digits == {"0", "1", "2", "3", "4", "5", "6", "7", "8", "9"}

\* /^\d*$/.test(t)
AllDigits(t) == \A i \in 1..Len(t) : t[i] \in Digits

\* handleOtpChange(index, value), index counted from 1 here
handleOtpChange(index, value) ==
    /\ RegisterShown
    /\ step = "otp"
    /\ LET v == IF Len(value) > 1 THEN <<value[1]>> ELSE value IN
       IF ~AllDigits(v)
       THEN UNCHANGED <<otpCode, error>>
       ELSE /\ otpCode' = [otpCode EXCEPT ![index] = v]
            /\ error' = ClearedError
    /\ lastOp' = NoOp
    /\ UNCHANGED <<store, page, sessionVars, step, formData, sessionId,
                   RegisterPage_isLoading, success, pending, returnedHandle>>

\* text.slice(0, 6)
Slice6(text) == SubSeq(text, 1, IF Len(text) < 6 THEN Len(text) ELSE 6)

\* a paste that fills the empty slots only
PastedOtpKeepsFilled(otp, text) ==
    LET pastedData == Slice6(text) IN
    IF pastedData = <<>> \/ ~AllDigits(pastedData)
    THEN otp
    ELSE [i \in 1..6 |-> IF i <= Len(pastedData) /\ otp[i] = <<>>
                         THEN <<pastedData[i]>> ELSE otp[i]]

\* the slots after a paste of `text`: /^\d+$/ needs at least one character
PastedOtp(otp, text) ==
    LET pastedData == Slice6(text) IN
    IF pastedData = <<>> \/ ~AllDigits(pastedData)
    THEN otp
    ELSE [i \in 1..6 |-> IF i <= Len(pastedData) THEN <<pastedData[i]>> ELSE otp[i]]

\* handleOtpPaste: bound to the first slot only
handleOtpPaste(text) ==
    /\ RegisterShown
    /\ step = "otp"
    /\ otpCode' = PastedOtp(otpCode, text)
    /\ lastOp' = RegisterEvent("handleOtpPaste", "pasted", text)
    /\ UNCHANGED <<store, page, sessionVars, step, formData, sessionId,
                   RegisterPage_isLoading, error, success, pending,
                   returnedHandle>>

\* otpCode.join("")
RECURSIVE Join(_, _)
Join(otp, n) == IF n = 0 THEN <<>> ELSE Join(otp, n - 1) \o otp[n]

\* a Back button that returns to the first step from wherever it is clicked
RegisterPage_BackToInfo ==
    /\ RegisterShown
    /\ step # "complete"
    /\ IF step = "info"
       THEN /\ page' = [page EXCEPT !.path = "/login", !.by = "navigate"]
            /\ step' = step
       ELSE /\ step' = "info"
            /\ page' = page
    /\ lastOp' = NoOp
    /\ UNCHANGED <<store, sessionVars, formData, otpCode, sessionId,
                   RegisterPage_isLoading, error, success, pending,
                   returnedHandle>>

\* the Back button, shown on every step but the last
RegisterPage_Back ==
    /\ RegisterShown
    /\ step # "complete"
    /\ IF step = "info"
       THEN /\ page' = [page EXCEPT !.path = "/login", !.by = "navigate"]
            /\ step' = step
       ELSE /\ step' = IF step = "otp" THEN "info" ELSE "otp"
            /\ page' = page
    /\ lastOp' = NoOp
    /\ UNCHANGED <<store, sessionVars, formData, otpCode, sessionId,
                   RegisterPage_isLoading, error, success, pending,
                   returnedHandle>>

\* the "Go to Dashboard" button of the last step
RegisterPage_GoToDashboard ==
    /\ RegisterShown
    /\ step = "complete"
    /\ page' = [page EXCEPT !.path = "/dashboard", !.by = "navigate"]
    /\ lastOp' = NoOp
    /\ UNCHANGED <<store, sessionVars, regVars>>

\* the visitor goes back in the browser's history: BrowserRouter renders the
\* route before without a page load, RegisterPage is unmounted and its state
\* is dropped; a request in flight is not aborted
RegisterPage_unmount ==
    /\ RegisterShown
    /\ page' = [page EXCEPT !.path = "/login", !.by = "history"]
    /\ step' = "info"
    /\ formData' = [email |-> <<>>, givenName |-> <<>>, familyName |-> <<>>,
                    password |-> <<>>, confirmPassword |-> <<>>]
    /\ otpCode' = EmptyOtp
    /\ sessionId' = Null
    /\ RegisterPage_isLoading' = FALSE
    /\ error' = Null
    /\ success' = Null
    /\ lastOp' = NoOp
    /\ UNCHANGED <<store, sessionVars, pending, returnedHandle>>

\* the outcomes of a request that does not end in a 2xx answer with a JSON body
FailedOutcomes == ErrorBodies \cup {"neterr"}

\* err.message in the catch block, given the handler's fallback for a body
\* without detail
RegisterError(outcome, fallback) ==
    CASE outcome = "detail" -> BackendDetail
      [] outcome = "nodetail" -> fallback
      [] outcome = "notjson" -> "SyntaxError"
      [] outcome = "neterr" -> "Failed to fetch"

\* a request is sent: isLoading is set and the error banner cleared
SendRequest(to, body) ==
    /\ pending' = Request(to, body)
    /\ RegisterPage_isLoading' = TRUE
    /\ error' = Null

\* the catch and finally blocks of every handler
RequestFailed(to, fallback) ==
    /\ RegisterShown
    /\ pending.to = to
    /\ \E outcome \in FailedOutcomes : error' = RegisterError(outcome, fallback)
    /\ pending' = NoRequest
    /\ RegisterPage_isLoading' = FALSE
    /\ lastOp' = NoOp
    /\ UNCHANGED <<store, page, sessionVars, step, formData, otpCode,
                   sessionId, success, returnedHandle>>

\* /^[^\s@]+@[^\s@]+\.[^\s@]+$/ on the code units of the address
EmailRegexTest(e) ==
    /\ \A i \in 1..Len(e) : e[i] # " "
    /\ \E at \in 2..(Len(e) - 3) :
          /\ e[at] = "@"
          /\ \A i \in 1..Len(e) : e[i] = "@" => i = at
          /\ \E dot \in (at + 2)..(Len(e) - 1) : e[dot] = "."

\* handleInitiateRegistration up to `await fetch(...)`; the submit button is
\* disabled while isLoading
handleInitiateRegistration ==
    /\ RegisterShown
    /\ step = "info"
    /\ ~RegisterPage_isLoading
    /\ IF formData.email = <<>> \/ formData.givenName = <<>> \/ formData.familyName = <<>>
       THEN /\ error' = "Please fill in all fields."
            /\ UNCHANGED <<pending, RegisterPage_isLoading>>
       ELSE IF ~EmailRegexTest(formData.email)
       THEN /\ error' = "Please enter a valid email address."
            /\ UNCHANGED <<pending, RegisterPage_isLoading>>
       ELSE SendRequest("register",
                        [email |-> formData.email,
                         given_name |-> formData.givenName,
                         family_name |-> formData.familyName])
    /\ lastOp' = NoOp
    /\ UNCHANGED <<store, page, sessionVars, step, formData, otpCode,
                   sessionId, success, returnedHandle>>

\* /api/auth/register answers 2xx with {session_id}
handleInitiateRegistrationOk ==
    /\ RegisterShown
    /\ pending.to = "register"
    /\ \E h \in Handles :
          /\ sessionId' = h
          /\ returnedHandle' = h
    /\ success' = "Verification code sent to your email!"
    /\ step' = "otp"
    /\ pending' = NoRequest
    /\ RegisterPage_isLoading' = FALSE
    /\ lastOp' = NoOp
    /\ UNCHANGED <<store, page, sessionVars, formData, otpCode, error>>

handleInitiateRegistrationFail == RequestFailed("register", "Registration failed")

\* handleVerifyOTP up to `await fetch(...)`; the submit button is disabled
\* while isLoading or while the six slots do not hold six code units
handleVerifyOTP ==
    /\ RegisterShown
    /\ step = "otp"
    /\ ~RegisterPage_isLoading
    /\ LET code == Join(otpCode, 6) IN
       /\ Len(code) = 6
       /\ SendRequest("verify-otp", [session_id |-> sessionId, otp_code |-> code])
       /\ lastOp' = RegisterEvent("handleVerifyOTP", "sent", <<>>)
    /\ UNCHANGED <<store, page, sessionVars, step, formData, otpCode,
                   sessionId, success, returnedHandle>>

\* /api/auth/verify-otp answers 2xx
handleVerifyOTPOk ==
    /\ RegisterShown
    /\ pending.to = "verify-otp"
    /\ success' = "Email verified! Now set your password."
    /\ step' = "password"
    /\ pending' = NoRequest
    /\ RegisterPage_isLoading' = FALSE
    /\ lastOp' = NoOp
    /\ UNCHANGED <<store, page, sessionVars, formData, otpCode, sessionId,
                   error, returnedHandle>>

handleVerifyOTPFail == RequestFailed("verify-otp", "Verification failed")

MinPasswordLength == 8

\* a validation that forgets the confirmation field
PasswordErrorLengthOnly(data) ==
    IF Len(data.password) < MinPasswordLength
    THEN "Password must be at least 8 characters long."
    ELSE Null

\* the two validations of the password step: the error to show, or Null;
\* `.length` counts code units and `!==` compares them one by one
PasswordError(data) ==
    IF Len(data.password) < MinPasswordLength
    THEN "Password must be at least 8 characters long."
    ELSE IF data.password # data.confirmPassword
    THEN "Passwords do not match."
    ELSE Null

\* handleCompleteRegistration up to `await fetch(...)`, or to its early return
handleCompleteRegistration ==
    /\ RegisterShown
    /\ step = "password"
    /\ ~RegisterPage_isLoading
    /\ IF PasswordError(formData) # Null
       THEN /\ error' = PasswordError(formData)
            /\ lastOp' = RegisterEvent("handleCompleteRegistration", "refused", <<>>)
            /\ UNCHANGED <<pending, RegisterPage_isLoading>>
       ELSE /\ SendRequest("complete-registration",
                           [session_id |-> sessionId,
                            password |-> formData.password,
                            given_name |-> formData.givenName,
                            family_name |-> formData.familyName])
            /\ lastOp' = RegisterEvent("handleCompleteRegistration", "sent", <<>>)
    /\ UNCHANGED <<store, page, sessionVars, step, formData, otpCode,
                   sessionId, success, returnedHandle>>

\* /api/auth/complete-registration answers 2xx; the token is stored when the
\* body carries one
handleCompleteRegistrationOk ==
    /\ RegisterShown
    /\ pending.to = "complete-registration"
    /\ \E token \in Tokens \cup {Undefined} :
          store' = IF token = Undefined THEN store
                   ELSE setItem(store, "access_token", Text(token))
    /\ step' = "complete"
    /\ pending' = NoRequest
    /\ RegisterPage_isLoading' = FALSE
    /\ lastOp' = NoOp
    /\ UNCHANGED <<page, sessionVars, formData, otpCode, sessionId, error,
                   success, returnedHandle>>

handleCompleteRegistrationFail ==
    RequestFailed("complete-registration", "Registration failed")

\* a request settles after RegisterPage was unmounted: the handler runs on,
\* its state setters reach no component, and handleCompleteRegistration still
\* stores the token of a 2xx answer that carries one
RegisterPage_settleUnmounted ==
    /\ AppShown
    /\ ~RegisterShown
    /\ pending # NoRequest
    /\ \E outcome \in {"ok"} \cup FailedOutcomes, token \in Tokens \cup {Undefined} :
          store' = IF /\ pending.to = "complete-registration"
                      /\ outcome = "ok"
                      /\ token # Undefined
                   THEN setItem(store, "access_token", Text(token))
                   ELSE store
    /\ pending' = NoRequest
    /\ lastOp' = NoOp
    /\ UNCHANGED <<page, sessionVars, step, formData, otpCode, sessionId,
                   RegisterPage_isLoading, error, success, returnedHandle>>

\* handleResendOTP up to `await fetch(...)`; the button is disabled while
\* isLoading
handleResendOTP ==
    /\ RegisterShown
    /\ step = "otp"
    /\ ~RegisterPage_isLoading
    /\ SendRequest("resend-otp", [session_id |-> sessionId])
    /\ lastOp' = NoOp
    /\ UNCHANGED <<store, page, sessionVars, step, formData, otpCode,
                   sessionId, success, returnedHandle>>

\* the handle the page carries on, given a resend answer whose session_id is
\* `answered` (Undefined when the body has none)
ResentSessionIdStale(held, answered) == held

\* `if (data.session_id) setSessionId(data.session_id)`
ResentSessionId(held, answered) ==
    IF answered = Undefined THEN held ELSE answered

\* /api/auth/resend-otp answers 2xx with {session_id?}
handleResendOTPOk ==
    /\ RegisterShown
    /\ pending.to = "resend-otp"
    /\ \E answered \in Handles \cup {Undefined} :
          /\ sessionId' = ResentSessionId(sessionId, answered)
          /\ returnedHandle' = IF answered = Undefined THEN returnedHandle
                               ELSE answered
          /\ lastOp' = RegisterEvent("handleResendOTP", "resent",
                                     IF answered = Undefined THEN <<>>
                                     ELSE <<answered>>)
    /\ success' = "New verification code sent!"
    /\ otpCode' = EmptyOtp
    /\ pending' = NoRequest
    /\ RegisterPage_isLoading' = FALSE
    /\ UNCHANGED <<store, page, sessionVars, step, formData, error>>

handleResendOTPFail == RequestFailed("resend-otp", "Failed to resend code")

\* what the visitor types into the form: an address the pattern accepts and
\* one it rejects, a name, and passwords one unit short of the minimum, of the
\* minimum length, and of the minimum length with another last unit
Units(n, c) == [i \in 1..n |-> IF i = n THEN c ELSE "p"]

FieldInputs(name) ==
    CASE name = "email" -> {<<"a", "@", "b", ".", "c">>, <<"a", "@", "b">>}
      [] name \in {"givenName", "familyName"} -> {<<"A">>}
      [] name \in {"password", "confirmPassword"} ->
            {Units(MinPasswordLength - 1, "p"), Units(MinPasswordLength, "p"),
             Units(MinPasswordLength, "q")}

FieldNames == {"email", "givenName", "familyName", "password", "confirmPassword"}

RegisterPage_onChange ==
    \E name \in FieldNames : \E value \in FieldInputs(name) :
        handleChange(name, value)

\* longest text pasted into the first slot
MaxPaste == 7

PasteDigits == <<"1", "2", "3", "4", "5", "6", "7", "8", "9">>

\* runs of distinct digits, and the same runs with one unit replaced by a
\* letter or by white space
PastedTexts ==
    {SubSeq(PasteDigits, 1, n) : n \in 0..MaxPaste}
    \cup UNION {{[SubSeq(PasteDigits, 1, n) EXCEPT ![k] = c] :
                    k \in 1..n, c \in {"x", " "}} : n \in 1..MaxPaste}

\* what a key press leaves in a slot's input: nothing, a digit, a letter, or
\* two units at once
OtpInputs == {<<>>, <<"9">>, <<"x">>, <<"9", "x">>}

RegisterPage_onOtpChange ==
    \E index \in 1..6, value \in OtpInputs : handleOtpChange(index, value)

RegisterPage_onPaste == \E text \in PastedTexts : handleOtpPaste(text)

\* the codes a visitor pastes while going through the flow
RegisterPage_onPasteCode ==
    \E text \in {SubSeq(PasteDigits, 1, 6), SubSeq(PasteDigits, 1, 5)} :
        handleOtpPaste(text)

(***************************************************************************)
(* Initial states and next-state relation                                  *)
(***************************************************************************)
Hostnames ==
    {<<"localhost">>,
     <<"app", "azurestaticapps", "net">>,
     <<"cardea", "local">>,
     <<"api", "azurewebsites", "net">>,
     <<"azurewebsites", "net">>}

Absent == <<"<absent>">>

UserRecordFields == <<"id", "email", "full_name">>

StaleUserText ==
    JSONstringify([id |-> "1", email |-> "a@b.com", full_name |-> "A B"],
                  UserRecordFields)

\* a user record stored without a full name
UnnamedUserText ==
    JSONstringify([id |-> "1", email |-> "a@b.com"], <<"id", "email">>)

MalformedText == <<"{", "bad">>

\* texts localStorage may hold under each key when the page is first loaded
InitTexts(k) ==
    CASE k = "cardea_auth_token" -> {Absent, <<>>, <<"t0">>}
      [] k = "cardea_user" -> {Absent, <<>>, MalformedText, <<"null">>, StaleUserText,
                              UnnamedUserText}
      [] k = "cardea_dev_auth" -> {Absent, <<"true">>, <<"false">>}
      [] k = "cardea_dev_user" -> {Absent, MalformedText, DevUserText("google")}
      [] OTHER -> {Absent}

Put(s, k, v) == IF v = Absent THEN s ELSE setItem(s, k, v)

InitStores ==
    {Put(Put(Put(Put(EmptyStore, "cardea_auth_token", a), "cardea_user", b),
             "cardea_dev_auth", c), "cardea_dev_user", d) :
        a \in InitTexts("cardea_auth_token"), b \in InitTexts("cardea_user"),
        c \in InitTexts("cardea_dev_auth"), d \in InitTexts("cardea_dev_user")}

\* principals the gateway session may hold when the page is first loaded
InitPrincipals(h) ==
    IF isAzureHosted(h)
    THEN {NoPrincipal, Principal("microsoft"),
          [Principal("github") EXCEPT !.rolesGiven = FALSE, !.userRoles = <<>>],
          [Principal("google") EXCEPT !.userRoles = <<>>]}
    ELSE {NoPrincipal}

(***************************************************************************)
(* hooks/useDashboardData.ts: the dashboard's polling                      *)
(***************************************************************************)
\* fetchData calls that may be in flight at once: the interval fires every 5 s
\* and each of a call's two requests may take up to 5 s
MaxCalls == 2

\* cap on retryRef.current
MaxRetry == 4

\* the hook is rendered by the dashboard
DashboardShown == AppShown /\ page.path = "/dashboard"

ConnectionLost == "Connection to Oracle lost"

\* an event of the hook: what a fetchData call or continuation did
Polled(status) ==
    Outcome("useDashboardData.fetchData", status, "", "", <<>>, NullUser)

\* a catch block that reports the lost connection in every build
ConnectionErrorAnyBuild(retry, isDev, before) ==
    IF retry >= 3 THEN ConnectionLost ELSE before

\* `if (retryRef.current >= 3 && !isDev) setError(...)`: the error after the
\* catch block of the analytics request, given the counter it has reached
ConnectionError(retry, isDev, before) ==
    IF retry >= 3 /\ ~isDev THEN ConnectionLost ELSE before

\* fetchData(), from the interval or through refetch, up to the devices
\* request; isAuthenticated is the prop the closure was created with
fetchData ==
    /\ DashboardShown
    /\ inFlight.devices + inFlight.analytics < MaxCalls
    /\ IF user = NullUser /\ ~DEV
       THEN /\ lastOp' = Polled("returned")
            /\ inFlight' = inFlight
       ELSE /\ lastOp' = Polled("called")
            /\ inFlight' = [inFlight EXCEPT !.devices = @ + 1]
    /\ UNCHANGED <<hostname, store, swaPrincipal, page, libVars,
                   msalInstance, msalAccounts, apVars, envVars, since,
                   regVars, DEV, dashboard, failedSince>>

\* answers to GET /api/devices/list: an empty list, a list with devices, a
\* body that is no array, and a failure
DevicesOutcomes == {"empty", "some", "notarray", "failed"}

\* the devices request settles and the analytics request is sent
fetchData_devices ==
    /\ AppShown
    /\ inFlight.devices > 0
    /\ \E outcome \in DevicesOutcomes :
          dashboard' = [dashboard EXCEPT !.hasDevices =
                           CASE outcome = "some" -> "true"
                             [] outcome \in {"empty", "notarray"} -> "false"
                             [] outcome = "failed" -> IF DEV THEN "false" ELSE @]
    /\ inFlight' = [devices |-> inFlight.devices - 1,
                    analytics |-> inFlight.analytics + 1]
    /\ lastOp' = NoOp
    /\ UNCHANGED <<hostname, store, swaPrincipal, page, libVars,
                   msalInstance, msalAccounts, apVars, envVars, since,
                   regVars, DEV, failedSince>>

\* GET /api/analytics answers 2xx
fetchData_analyticsOk ==
    /\ AppShown
    /\ inFlight.analytics > 0
    /\ dashboard' = [dashboard EXCEPT !.data = "data", !.isConnected = TRUE,
                                      !.error = Null, !.retryRef = 0,
                                      !.isLoading = FALSE]
    /\ inFlight' = [inFlight EXCEPT !.analytics = @ - 1]
    /\ failedSince' = 0
    /\ lastOp' = Polled("succeeded")
    /\ UNCHANGED <<hostname, store, swaPrincipal, page, libVars,
                   msalInstance, msalAccounts, apVars, envVars, since,
                   regVars, DEV>>

\* GET /api/analytics fails or times out
fetchData_analyticsFail ==
    /\ AppShown
    /\ inFlight.analytics > 0
    /\ dashboard.retryRef < MaxRetry
    /\ dashboard' = [dashboard EXCEPT
                        !.isConnected = FALSE,
                        !.retryRef = @ + 1,
                        !.error = ConnectionError(dashboard.retryRef + 1, DEV, @),
                        !.isLoading = FALSE]
    /\ inFlight' = [inFlight EXCEPT !.analytics = @ - 1]
    /\ failedSince' = failedSince + 1
    /\ lastOp' = Polled("failed")
    /\ UNCHANGED <<hostname, store, swaPrincipal, page, libVars,
                   msalInstance, msalAccounts, apVars, envVars, since,
                   regVars, DEV>>

\* the hook's useState and useRef initial values; nothing is in flight
useDashboardDataInitial ==
    /\ dashboard = [data |-> "null", isConnected |-> FALSE, isLoading |-> TRUE,
                    hasDevices |-> "null", error |-> Null, retryRef |-> 0]
    /\ inFlight = [devices |-> 0, analytics |-> 0]
    /\ failedSince = 0

\* in-memory values and history of a tab that has just been opened
FreshTabAt(path) ==
    /\ page = Document(path, "visit")
    /\ gcuPc = "idle"
    /\ msalInstance = FALSE
    /\ msalAccounts = <<>>
    /\ initPc = "msal"
    /\ user = NullUser
    /\ isLoading = TRUE
    /\ loginPc = "idle"
    /\ msPc = "idle"
    /\ msResponse = NoResponse
    /\ logoutPc = "idle"
    /\ lastOp = NoOp
    /\ since = NoSince
    /\ useDashboardDataInitial

FreshTab == FreshTabAt("/")

\* the session lifecycle: the tab opens on a local or a managed host of a
\* browser that holds nothing for this origin yet
SessionHostnames == {<<"localhost">>, <<"app", "azurestaticapps", "net">>}

Init ==
    /\ hostname \in SessionHostnames
    /\ store = EmptyStore
    /\ swaPrincipal \in InitPrincipals(hostname) \cap {NoPrincipal, Principal("microsoft")}
    /\ azureAuthConfigured \in BOOLEAN
    /\ msalConstructs \in BOOLEAN
    /\ azureAuthConfigured \/ msalConstructs
    /\ FreshTab
    /\ DEV = FALSE
    /\ RegisterPageInitial

\* resolution alone: the tab opens on any hostname with any stored texts
InitResolve ==
    /\ hostname \in Hostnames
    /\ store \in InitStores
    /\ swaPrincipal \in InitPrincipals(hostname)
    /\ azureAuthConfigured = FALSE
    /\ msalConstructs = TRUE
    /\ FreshTab
    /\ DEV = FALSE
    /\ RegisterPageInitial

Next ==
    \/ getCurrentUserCall
    \/ getCurrentUserFetched
    \/ PageLoad
    \/ GatewayLogin
    \/ GatewayLogout
    \/ login
    \/ logout
    \/ AuthProvider_init
    \/ initializeMsal
    \/ loginCall
    \/ loginOk
    \/ loginFail
    \/ loginWithMicrosoftCall
    \/ loginWithMicrosoftPopupOk
    \/ loginWithMicrosoftPopupFail
    \/ loginWithMicrosoftOk
    \/ loginWithMicrosoftFail
    \/ loginWithGoogle
    \/ AuthProvider_logoutCall
    \/ AuthProvider_logoutPopupOk
    \/ AuthProvider_logoutPopupFail
    \/ useDashboardData_fetchData
    \/ App_fetchData

Spec == Init /\ [][Next]_vars

\* the operations of lib/auth and the gateway, without the session context
NextResolve ==
    \/ getCurrentUserCall
    \/ getCurrentUserFetched
    \/ PageLoad
    \/ GatewayLogin
    \/ GatewayLogout
    \/ login
    \/ logout

SpecResolve == InitResolve /\ [][NextResolve]_vars

\* the onboarding tour across logins and logouts: the tab opens on a local or
\* a managed host with nothing or a local session stored
InitOnboarding ==
    /\ hostname \in {<<"localhost">>, <<"app", "azurestaticapps", "net">>}
    /\ store \in {EmptyStore,
                  Put(Put(EmptyStore, "cardea_auth_token", <<"t0">>),
                      "cardea_user", StaleUserText)}
    /\ swaPrincipal = NoPrincipal
    /\ azureAuthConfigured = FALSE
    /\ msalConstructs = TRUE
    /\ FreshTab
    /\ DEV = FALSE
    /\ RegisterPageInitial

NextOnboarding ==
    \/ PageLoad
    \/ GatewayLogin
    \/ GatewayLogout
    \/ login
    \/ logout
    \/ AuthProvider_init
    \/ loginCall
    \/ loginOk
    \/ loginFail
    \/ AuthProvider_logoutCall
    \/ useOnboarding_effect
    \/ useOnboarding_skip

SpecOnboarding == InitOnboarding /\ [][NextOnboarding]_vars

\* the dashboard's polling: the visitor opens /dashboard in a development or
\* a production build
InitDashboard ==
    /\ hostname = <<"localhost">>
    /\ store = EmptyStore
    /\ swaPrincipal = NoPrincipal
    /\ azureAuthConfigured = FALSE
    /\ msalConstructs = TRUE
    /\ FreshTabAt("/dashboard")
    /\ DEV \in BOOLEAN
    /\ RegisterPageInitial

NextDashboard ==
    \/ AuthProvider_init
    \/ loginCall
    \/ loginOk
    \/ loginFail
    \/ AuthProvider_logoutCall
    \/ fetchData
    \/ fetchData_devices
    \/ fetchData_analyticsOk
    \/ fetchData_analyticsFail

SpecDashboard == InitDashboard /\ [][NextDashboard]_vars

\* the registration flow: the visitor opens /register
InitRegister ==
    /\ hostname = <<"localhost">>
    /\ store = EmptyStore
    /\ swaPrincipal = NoPrincipal
    /\ azureAuthConfigured = FALSE
    /\ msalConstructs = TRUE
    /\ FreshTabAt("/register")
    /\ DEV = FALSE
    /\ RegisterPageInitial

NextRegister ==
    \/ RegisterPage_onChange
    \/ RegisterPage_onPasteCode
    \/ RegisterPage_Back
    \/ RegisterPage_GoToDashboard
    \/ handleInitiateRegistration
    \/ handleInitiateRegistrationOk
    \/ handleInitiateRegistrationFail
    \/ handleVerifyOTP
    \/ handleVerifyOTPOk
    \/ handleVerifyOTPFail
    \/ handleCompleteRegistration
    \/ handleCompleteRegistrationOk
    \/ handleCompleteRegistrationFail
    \/ handleResendOTP
    \/ handleResendOTPOk
    \/ handleResendOTPFail
    \/ RegisterPage_unmount
    \/ RegisterPage_settleUnmounted

SpecRegister == InitRegister /\ [][NextRegister]_vars

\* the OTP step alone: the page as handleInitiateRegistration leaves it
InitOtp ==
    /\ hostname = <<"localhost">>
    /\ store = EmptyStore
    /\ swaPrincipal = NoPrincipal
    /\ azureAuthConfigured = FALSE
    /\ msalConstructs = TRUE
    /\ FreshTabAt("/register")
    /\ DEV = FALSE
    /\ step = "otp"
    /\ formData = [email |-> <<"a", "@", "b", ".", "c">>, givenName |-> <<"A">>,
                   familyName |-> <<"A">>, password |-> <<>>,
                   confirmPassword |-> <<>>]
    /\ otpCode = EmptyOtp
    /\ sessionId = "h1"
    /\ RegisterPage_isLoading = FALSE
    /\ error = Null
    /\ success = "Verification code sent to your email!"
    /\ pending = NoRequest
    /\ returnedHandle = "h1"

NextOtp ==
    \/ RegisterPage_onOtpChange
    \/ RegisterPage_onPaste

SpecOtp == InitOtp /\ [][NextOtp]_vars

\* the session context and the route guard: the visitor opens a protected
\* route of a build with or without Azure auth
InitGuard ==
    /\ hostname = <<"localhost">>
    /\ store = EmptyStore
    /\ swaPrincipal = NoPrincipal
    /\ azureAuthConfigured \in BOOLEAN
    /\ msalConstructs = TRUE
    /\ FreshTabAt("/dashboard")
    /\ DEV = FALSE
    /\ RegisterPageInitial

NextGuard ==
    \/ PageLoad
    \/ AuthProvider_init
    \/ initializeMsal
    \/ loginCall
    \/ loginOk
    \/ loginFail
    \/ loginWithMicrosoftCall
    \/ loginWithMicrosoftPopupOk
    \/ loginWithMicrosoftPopupFail
    \/ loginWithMicrosoftOk
    \/ loginWithMicrosoftFail
    \/ loginWithGoogle
    \/ AuthProvider_logoutCall
    \/ AuthProvider_logoutPopupOk
    \/ AuthProvider_logoutPopupFail
    \/ ProtectedRoute_render

SpecGuard == InitGuard /\ [][NextGuard]_vars

TypeOK ==
    /\ gcuPc \in {"idle", "fetch"}
    /\ initPc \in {"msal", "initialize", "done"}
    /\ loginPc \in {"idle", "fetch"}
    /\ msPc \in {"idle", "popup", "exchange"}
    /\ logoutPc \in {"idle", "popup"}
    /\ isLoading \in BOOLEAN
    /\ DOMAIN store \subseteq Keys

(***************************************************************************)
(* Identity sources, as the cascade policy names them                      *)
(***************************************************************************)
\* the gateway answered /.auth/me with a non-null clientPrincipal
ManagedSourcePresent(h, me, principal) ==
    isAzureHosted(h) /\ me = "ok" /\ principal # NoPrincipal

\* a non-empty bearer token and a user record whose text is that of an object
LocalSourcePresent(s) ==
    /\ Truthy(s, "cardea_auth_token")
    /\ Has(s, "cardea_user")
    /\ IsObjectText(s["cardea_user"])

\* the bypass flag is 'true' and the simulated user's text is that of an object
DevSourceStored(s) ==
    /\ Has(s, "cardea_dev_auth")
    /\ s["cardea_dev_auth"] = <<"true">>
    /\ Has(s, "cardea_dev_user")
    /\ IsObjectText(s["cardea_dev_user"])

DevSourcePresent(s, h) == ~isAzureHosted(h) /\ DevSourceStored(s)

Returned(op) == op.op = "getCurrentUser" /\ op.status = "returned"

ReturnedIdentity(op, provider) ==
    /\ Returned(op)
    /\ op.user # NullUser
    /\ op.user.identityProvider = provider

\* C1: cascade priority. Whenever getCurrentUser settles, the identity it
\* returns is that of the first present source in the order managed, local
\* credential, developer bypass (the bypass only off managed hosting), and it
\* returns null only when no source is present.
C1_CascadePriority ==
    [][lastOp'.op = "getCurrentUser" =>
         LET managed == ManagedSourcePresent(hostname, lastOp'.cause, swaPrincipal)
             local == LocalSourcePresent(store)
             dev == DevSourcePresent(store, hostname)
         IN /\ managed =>
                 /\ ReturnedIdentity(lastOp', swaPrincipal.identityProvider)
                 /\ lastOp'.user.userId = swaPrincipal.userId
            /\ ~managed /\ local => ReturnedIdentity(lastOp', "local")
            /\ ~managed /\ ~local /\ dev => ReturnedIdentity(lastOp', "dev")
            /\ Returned(lastOp') /\ lastOp'.user = NullUser =>
                 ~managed /\ ~local /\ ~dev]_vars

\* a managed identity was returned while a local token and record are stored
C1_Witness ==
    /\ ReturnedIdentity(lastOp, "aad")
    /\ LocalSourcePresent(store)

\* C4: on a hostname that indicates managed hosting, getCurrentUser never
\* returns an identity whose provider is the developer bypass.
C4_NoBypassOnManagedHost ==
    lastOp.op = "getCurrentUser" /\ isAzureHosted(hostname) =>
        lastOp.user = NullUser \/ lastOp.user.identityProvider # "dev"

\* on a managed host whose /.auth/me call failed, with the bypass keys stored
\* and no local record, resolution ended with no identity
C4_Witness ==
    /\ isAzureHosted(hostname)
    /\ Returned(lastOp)
    /\ lastOp.cause \in {"notok", "neterr", "badjson"}
    /\ DevSourceStored(store)
    /\ lastOp.user = NullUser

\* C5: passive resolution never surfaces an error: every getCurrentUser call
\* resolves (to an identity or null) and never rejects.
C5_ResolutionNeverRejects ==
    lastOp.op = "getCurrentUser" => lastOp.status = "returned"

\* C3: corrupt-state self-heal. When a bearer token is stored and the user
\* record key holds a non-empty text that is not a parseable user record, a
\* getCurrentUser call that reaches the local step does not throw, removes the
\* stored local credential record and returns the bypass identity or null.
C3_CorruptStateSelfHeal ==
    [][/\ lastOp'.op = "getCurrentUser"
       /\ ~ManagedSourcePresent(hostname, lastOp'.cause, swaPrincipal)
       /\ Truthy(store, "cardea_auth_token")
       /\ Truthy(store, "cardea_user")
       /\ ~IsObjectText(store["cardea_user"])
       => /\ Returned(lastOp')
          /\ ~Has(store', "cardea_auth_token")
          /\ ~Has(store', "cardea_user")
          /\ lastOp'.user = NullUser \/ lastOp'.user.identityProvider = "dev"]_vars

\* C2: logout totality. Once a logout has completed and the page has been
\* loaded afresh, with no login step in between, a resolution pass yields no
\* identity: getCurrentUser resolves to null and checkExistingSession leaves
\* user null.
C2_LogoutTotality ==
    since.what = "logout" /\ since.reloaded =>
        /\ lastOp.op = "getCurrentUser" =>
              lastOp.status = "returned" /\ lastOp.user = NullUser
        /\ initPc = "done" => user = NullUser

\* every key under which an adapter keeps its credential record
CredentialKeys ==
    {"cardea_auth_token", "cardea_user", "cardea_dev_auth",
     "cardea_dev_provider", "cardea_dev_user", "user", "access_token"}

\* C6: session logout policy. A completed logout has cleared the credential
\* records of all adapters, and the browser is sent to the managed gateway's
\* logout URL only if the gateway holds a session (the current identity is a
\* managed one).
C6_LogoutPolicy ==
    /\ since.what = "logout" /\ ~since.reloaded =>
          \A k \in CredentialKeys : ~Has(store, k)
    /\ page.at = "gateway_logout" => swaPrincipal # NoPrincipal

\* C7: a failed credential login changes nothing. The call itself leaves the
\* store and user alone; when the request is answered non-2xx or fails at
\* network level, login rejects with an error that carries the backend's
\* detail when one is given, the store and user are as before, and isLoading
\* is false.
C7_FailedLoginChangesNothing ==
    [][/\ loginPc = "idle" /\ loginPc' = "fetch" =>
             store' = store /\ user' = user
       /\ lastOp'.op = "login" /\ lastOp'.status = "rejected" =>
             /\ store' = store
             /\ user' = user
             /\ isLoading' = FALSE
             /\ lastOp'.message # ""
             /\ lastOp'.cause = "detail" => lastOp'.message = BackendDetail]_vars

\* a login was refused with a detail while an earlier session was in place:
\* the session and its stored record are still there
C7_Witness ==
    /\ lastOp.op = "login"
    /\ lastOp.status = "rejected"
    /\ lastOp.cause = "detail"
    /\ user # NullUser
    /\ Truthy(store, "user")
    /\ Truthy(store, "access_token")
    /\ ~isLoading

\* C8: login/resolve round trip. After a successful login(email, password)
\* and a fresh page load, a getCurrentUser pass that finds no managed
\* principal returns an identity with provider local-credential and the
\* subject id of the identity that login placed in the session.
C8_LoginResolveRoundTrip ==
    /\ since.what = "login"
    /\ since.reloaded
    /\ lastOp.op = "getCurrentUser"
    /\ ~ManagedSourcePresent(hostname, lastOp.cause, swaPrincipal)
    => /\ ReturnedIdentity(lastOp, "local")
       /\ lastOp.user.userId = since.id

\* C9: uniform bearer token. After a successful login through the credential
\* path or the popup path, a data-API request carries the token that login
\* was issued.
C9_UniformBearerToken ==
    since.what \in {"login", "popup"} /\ lastOp.status = "sent" =>
        lastOp.header = <<"Bearer", since.token>>

\* C10: a successful popup is not sufficient. Up to the exchange request
\* loginWithMicrosoft writes nothing; when the exchange endpoint answers
\* non-2xx, loginWithMicrosoft rejects, user and the store are unchanged and
\* isLoading is false.
C10_PopupNotSufficient ==
    [][/\ \/ msPc = "idle" /\ msPc' = "popup"
          \/ msPc = "popup" /\ msPc' = "exchange"
          => store' = store /\ user' = user
       /\ /\ lastOp'.op = "loginWithMicrosoft"
          /\ lastOp'.status = "rejected"
          /\ lastOp'.cause \in ErrorBodies
          => /\ store' = store
             /\ user' = user
             /\ isLoading' = FALSE]_vars

\* the popup signed an account in, the exchange was refused, and there is
\* neither a session nor a stored token
C10_Witness ==
    /\ lastOp.op = "loginWithMicrosoft"
    /\ lastOp.status = "rejected"
    /\ lastOp.cause \in ErrorBodies
    /\ Len(msalAccounts) > 0
    /\ user = NullUser
    /\ ~Has(store, "user")
    /\ ~Has(store, "access_token")
    /\ ~isLoading

\* C11: unavailable popup provider. A failure to construct or initialize the
\* popup library does not fail the mount: the page is never left without the
\* app, and session resolution finishes whether or not initialize() failed. While the adapter is unavailable every
\* loginWithMicrosoft call rejects on the spot: no popup is opened and user,
\* isLoading and the store are unchanged.
C11_UnavailablePopupProvider ==
    /\ [](page.at # "crashed")
    /\ [][/\ initPc = "initialize" /\ initPc' = "done" => ~isLoading'
          /\ /\ ~msalInstance
             /\ msPc' # msPc \/ lastOp'.op = "loginWithMicrosoft"
             => /\ lastOp'.op = "loginWithMicrosoft"
                /\ lastOp'.status = "rejected"
                /\ msPc' = "idle"
                /\ user' = user
                /\ isLoading' = isLoading
                /\ store' = store]_vars

\* C12: after AuthProvider mounts, isLoading is true for as long as the first
\* session resolution has not finished (it becomes false when resolution
\* ends, whatever it found).
C12_LoadingUntilResolved ==
    AppShown /\ initPc # "done" => isLoading

\* the guard's state for a build mode: what ProtectedRoute shows
GuardState(isDev) ==
    CASE ProtectedRoute(useAuth, isDev) = "spinner" -> "Checking"
      [] ProtectedRoute(useAuth, isDev) = "Navigate" -> "Denied"
      [] ProtectedRoute(useAuth, isDev) = "children" -> "Granted"

\* C13: route guard safety. ProtectedRoute renders its children only when
\* isLoading is false and the build is in development mode or isAuthenticated
\* is true; outside development mode an unauthenticated visitor whose session
\* has finished loading is redirected to the login view, and in development
\* mode the redirect never happens.
C13_RouteGuardSafety ==
    lastOp.op = "ProtectedRoute" =>
        LET isDev == lastOp.cause = "DEV" IN
        /\ lastOp.status = "children" =>
              ~isLoading /\ (isDev \/ user # NullUser)
        /\ ~isDev /\ ~isLoading /\ user = NullUser => lastOp.status = "Navigate"
        /\ isDev => lastOp.status # "Navigate"

\* a production build redirected a visitor with no session, after loading ended
C13_Witness ==
    /\ lastOp.op = "ProtectedRoute"
    /\ lastOp.cause = "PROD"
    /\ lastOp.status = "Navigate"
    /\ initPc = "done"
    /\ ~isLoading
    /\ user = NullUser

C15_SessionHandleThreading ==
    [][/\ /\ pending = NoRequest
          /\ pending' # NoRequest
          /\ pending'.to \in {"verify-otp", "complete-registration"}
          => /\ returnedHandle \in Handles
             /\ pending'.body.session_id = returnedHandle
       /\ lastOp'.op = "handleResendOTP" =>
             sessionId' = IF lastOp'.text = <<>> THEN sessionId
                          ELSE lastOp'.text[1]]_vars

\* after a resend, a verify-otp request is in flight with the handle the
\* backend returned last
C15_Witness ==
    /\ pending # NoRequest
    /\ pending.to = "verify-otp"
    /\ success = "New verification code sent!"
    /\ pending.body.session_id = returnedHandle
    /\ returnedHandle \in Handles

\* C16: password policy. The complete-registration request is sent only when
\* the password has at least 8 code units and equals the confirmation unit
\* for unit; otherwise nothing is sent, nothing is stored, the flow stays on
\* the password step with an error message, and isLoading is false.
C16_PasswordPolicy ==
    [][lastOp'.op = "handleCompleteRegistration" =>
         LET acceptable == /\ Len(formData.password) >= 8
                           /\ formData.password = formData.confirmPassword
         IN /\ pending' # NoRequest =>
                  /\ acceptable
                  /\ pending'.to = "complete-registration"
                  /\ pending'.body.password = formData.password
            /\ ~acceptable =>
                  /\ pending' = NoRequest
                  /\ store' = store
                  /\ step' = "password"
                  /\ error' # Null
                  /\ ~RegisterPage_isLoading']_vars

\* a password of the minimum length was refused because the confirmation
\* differs in its last unit
C16_Witness ==
    /\ lastOp.op = "handleCompleteRegistration"
    /\ lastOp.status = "refused"
    /\ Len(formData.password) = 8
    /\ Len(formData.confirmPassword) = 8
    /\ formData.password # formData.confirmPassword
    /\ step = "password"
    /\ error = "Passwords do not match."
    /\ pending = NoRequest
    /\ ~RegisterPage_isLoading

\* C20: OTP paste. A pasted text whose first six units are digits sets slot i
\* to the i-th of them for all six slots, whatever the slots held before; a
\* pasted text with a non-digit among its first six units changes no slot.
C20_OtpPaste ==
    [][lastOp'.op = "handleOtpPaste" =>
         LET text == lastOp'.text IN
         /\ Len(text) >= 6 /\ (\A i \in 1..6 : text[i] \in Digits) =>
               \A i \in 1..6 : otpCode'[i] = <<text[i]>>
         /\ (\E i \in 1..Len(text) : i <= 6 /\ text[i] \notin Digits) =>
               otpCode' = otpCode]_vars

\* six digits were pasted over slots of which one had a digit typed into it
\* before: the previous step's slots are gone and each slot holds its digit
C20_Witness ==
    /\ lastOp.op = "handleOtpPaste"
    /\ lastOp.text = <<"1", "2", "3", "4", "5", "6">>
    /\ otpCode = [i \in 1..6 |-> <<PasteDigits[i]>>]

\* C17: idempotent re-login. When login(email, password) succeeds over the
\* session an earlier successful login of the same account left (the backend
\* answering with the same user record), the new identity has the subject id
\* and the provider of the one before, and the store holds one credential
\* record: the keys it held before, with this identity and this login's token.
C17_IdempotentRelogin ==
    [][/\ lastOp'.op = "login"
       /\ lastOp'.status = "resolved"
       /\ Prop(user, "provider") = "traditional"
       /\ Prop(user, "email") = user'.email
       /\ Has(store, "user")
       /\ Has(store, "access_token")
       => /\ user'.id = user.id
          /\ user'.provider = user.provider
          /\ DOMAIN store' = DOMAIN store
          /\ JSONparse(store'["user"]).obj = user'
          /\ store'["access_token"] = <<since'.token>>]_vars

\* a second login of the same account has just succeeded
C17_Witness ==
    /\ lastOp.op = "login"
    /\ lastOp.status = "resolved"
    /\ since.what = "login"
    /\ since.again
    /\ user.id = since.id
    /\ Has(store, "user")
    /\ Has(store, "access_token")

\* C18: every identity getCurrentUser returns has at least one role, and the
\* identity of a managed principal whose role list is missing or empty has
\* exactly the role "authenticated".
C18_NonEmptyRoles ==
    [][/\ lastOp'.op = "getCurrentUser"
       /\ Returned(lastOp')
       /\ lastOp'.user # NullUser
       => /\ Len(lastOp'.user.userRoles) > 0
          /\ /\ ManagedSourcePresent(hostname, lastOp'.cause, swaPrincipal)
             /\ ~swaPrincipal.rolesGiven \/ swaPrincipal.userRoles = <<>>
             => lastOp'.user.userRoles = <<"authenticated">>]_vars

\* C19: local-credential mapping. Off managed hosting, with a non-empty token
\* and a user record with an id and an email stored, getCurrentUser returns an
\* identity whose subject id is the record's id, whose provider is "local",
\* whose roles are exactly "authenticated", and whose display name is the
\* record's full_name, or its email when it has no full_name.
C19_LocalCredentialMapping ==
    [][/\ lastOp'.op = "getCurrentUser"
       /\ ~isAzureHosted(hostname)
       /\ Truthy(store, "cardea_auth_token")
       /\ Has(store, "cardea_user")
       /\ IsObjectText(store["cardea_user"])
       /\ JSTruthy(Prop(JSONparse(store["cardea_user"]).obj, "id"))
       /\ JSTruthy(Prop(JSONparse(store["cardea_user"]).obj, "email"))
       => LET record == JSONparse(store["cardea_user"]).obj IN
          /\ Returned(lastOp')
          /\ lastOp'.user # NullUser
          /\ lastOp'.user.userId = record.id
          /\ lastOp'.user.identityProvider = "local"
          /\ lastOp'.user.userRoles = <<"authenticated">>
          /\ getDisplayName(lastOp'.user) =
                IF JSTruthy(Prop(record, "full_name"))
                THEN record.full_name ELSE record.email]_vars

\* the record stored without a full name was mapped: the identity returned
\* off managed hosting is labelled with its email
C19_Witness ==
    /\ ~isAzureHosted(hostname)
    /\ ReturnedIdentity(lastOp, "local")
    /\ Has(store, "cardea_user")
    /\ store["cardea_user"] = UnnamedUserText
    /\ getDisplayName(lastOp.user) = "a@b.com"

\* C21: resolution is side-effect-free on the store. A getCurrentUser call
\* leaves every key of localStorage as it was (a managed identity is returned
\* with the stored local record untouched), except that a call which reaches
\* the local step with a token and a user record that is not a parseable
\* record removes exactly the token and the user record.
C21_ResolutionLeavesStore ==
    [][lastOp'.op = "getCurrentUser" \/ gcuPc' # gcuPc =>
         LET malformed == /\ Truthy(store, "cardea_user")
                          /\ ~IsObjectText(store["cardea_user"])
             managed == /\ lastOp'.op = "getCurrentUser"
                        /\ ManagedSourcePresent(hostname, lastOp'.cause, swaPrincipal)
         IN /\ managed \/ ~malformed => store' = store
            /\ store' # store =>
                  store' = removeItems(store, <<"cardea_auth_token", "cardea_user">>)
            /\ /\ lastOp'.op = "getCurrentUser"
               /\ ~managed
               /\ malformed
               /\ Truthy(store, "cardea_auth_token")
               => /\ ~Has(store', "cardea_auth_token")
                  /\ ~Has(store', "cardea_user")]_vars

\* a managed identity was returned while a token and a user record that does
\* not parse are stored: the call left them where they were
C21_Witness ==
    /\ ReturnedIdentity(lastOp, "aad")
    /\ Truthy(store, "cardea_auth_token")
    /\ Has(store, "cardea_user")
    /\ store["cardea_user"] = MalformedText

\* C22: logout() removes the token key, the user-record key and every
\* developer-bypass key in one step and leaves the onboarding flag as it was;
\* no login or logout step removes the flag, so once the tour has been
\* finished or skipped the effect never shows it again.
C22_LogoutKeepsOnboardingFlag ==
    [][/\ /\ page.at = "app"
          /\ page'.at \in {"gateway_logout", "navigating"}
          /\ page'.by = "logout"
          => /\ \A i \in 1..Len(LogoutKeys) : ~Has(store', LogoutKeys[i])
             /\ \A k \in DOMAIN store \ {LogoutKeys[i] : i \in 1..Len(LogoutKeys)} :
                   Has(store', k) /\ store'[k] = store[k]
       /\ Truthy(store, "cardea_onboarding_done")
          => /\ Truthy(store', "cardea_onboarding_done")
             /\ lastOp'.op = "useOnboarding" => lastOp'.status = "hidden"]_vars

\* the tour was dismissed, then logout() ran and the page came back, and the
\* effect ran with no devices: the tour stayed hidden
C22_Witness ==
    /\ since.what = "logout"
    /\ since.reloaded
    /\ Truthy(store, "cardea_onboarding_done")
    /\ lastOp.op = "useOnboarding"
    /\ lastOp.cause = "false"
    /\ lastOp.status = "hidden"

\* C23: logout atomicity. A logout has made all its removals from
\* localStorage and has cleared the session state before it first yields:
\* while a logout is suspended, the session keys are gone and user is null, so
\* nothing that runs in between sees the store cleared with a user still
\* reported.
C23_LogoutAtomicity ==
    logoutPc # "idle" =>
        /\ ~Has(store, "user")
        /\ ~Has(store, "access_token")
        /\ user = NullUser

\* C24: result discarded after unmount. When RegisterPage has been unmounted
\* while one of its requests is in flight, the request's completion updates
\* no session state and writes nothing to localStorage.
C24_DiscardedAfterUnmount ==
    [][/\ AppShown
       /\ ~RegisterShown
       /\ pending # NoRequest
       => /\ store' = store
          /\ user' = user
          /\ isLoading' = isLoading]_vars

\* C25: a popup login whose exchange was refused yields no session later.
\* When the mount effect finishes after such a failure, with no login or
\* logout step since and no session record stored, user is null: the account
\* the popup library has cached is not made the session.
C25_RefusedPopupStaysOut ==
    [][/\ since.what = "refused"
       /\ initPc # "done"
       /\ initPc' = "done"
       /\ ~(Truthy(store, "user") /\ Truthy(store, "access_token"))
       => user' = NullUser]_vars

\* C26: logout wins over a login in flight. Once a logout has completed and
\* has left user null and no session record in the store, and no login has
\* been started since, user stays null and the store holds no session record:
\* the late answer to a login that was in flight when logout ran does not
\* bring a session back.
C26_LogoutWins ==
    [][/\ since.what = "logout"
       /\ user = NullUser
       /\ ~Has(store, "user")
       /\ ~Has(store, "access_token")
       => /\ user' = NullUser
          /\ ~Has(store', "user")
          /\ ~Has(store', "access_token")]_vars

\* C27: isLoading is false only when no session operation is in flight:
\* neither the initial resolution, nor a login, a popup login or a logout,
\* also when two of them overlap.
C27_LoadingWhileInFlight ==
    AppShown /\ ~isLoading =>
        /\ initPc = "done"
        /\ loginPc = "idle"
        /\ msPc = "idle"
        /\ logoutPc = "idle"

\* C28: a failed logout leaves the session consistent. When logout() of the
\* AuthProvider has just rejected because the library's logoutPopup failed,
\* user and the stored session record are both still there or both gone.
C28_FailedLogoutConsistent ==
    lastOp.op = "logout" /\ lastOp.status = "rejected" =>
        (user = NullUser <=> ~Has(store, "user") /\ ~Has(store, "access_token"))

\* C29: registration step order. While RegisterPage stays on screen, under
\* every interleaving of submissions, resends and Back clicks with the answers
\* in flight: the flow enters the password step only on a 2xx answer to a
\* verify-otp request sent with the handle the page holds, and the handle does
\* not change while the flow is on that step; the flow enters the complete
\* step only on a 2xx answer to a complete-registration request; a step change
\* that settles no request (the Back button) goes from password to otp or from
\* otp to info; and the flow never leaves the complete step.
C29_RegistrationStepOrder ==
    [][RegisterShown /\ RegisterShown' =>
         /\ step # "password" /\ step' = "password" =>
               /\ pending.to = "verify-otp"
               /\ pending' = NoRequest
               /\ pending.body.session_id = sessionId'
         /\ step = "password" /\ step' = "password" => sessionId' = sessionId
         /\ step # "complete" /\ step' = "complete" =>
               /\ pending.to = "complete-registration"
               /\ pending' = NoRequest
         /\ step' # step /\ pending' = pending =>
               <<step, step'>> \in {<<"password", "otp">>, <<"otp", "info">>}
         /\ step = "complete" => step' = "complete"]_vars

\* Back was clicked on the password step while the complete-registration
\* request was in flight: the page shows the otp step and awaits the answer
C29_Witness ==
    /\ RegisterShown
    /\ step = "otp"
    /\ pending # NoRequest
    /\ pending.to = "complete-registration"
    /\ pending.body.session_id = sessionId

\* C30: dashboard connection error threshold. The error "Connection to Oracle
\* lost" is set only when at least three analytics fetches have failed since
\* the last one that succeeded, and never in a development build; a successful
\* analytics fetch resets the failure counter to 0, clears the error and sets
\* isConnected; and a fetchData call made while the user is neither
\* authenticated nor in a development build sends nothing and changes nothing.
C30_ConnectionErrorThreshold ==
    [][/\ dashboard'.error = ConnectionLost /\ dashboard.error # ConnectionLost
          => failedSince' >= 3 /\ ~DEV
       /\ DEV => dashboard'.error # ConnectionLost
       /\ lastOp'.op = "useDashboardData.fetchData" /\ lastOp'.status = "succeeded"
          => /\ dashboard'.retryRef = 0
             /\ dashboard'.error = Null
             /\ dashboard'.isConnected
       /\ /\ lastOp'.op = "useDashboardData.fetchData"
          /\ lastOp'.status \in {"called", "returned"}
          /\ user = NullUser
          /\ ~DEV
          => /\ inFlight' = inFlight
             /\ dashboard' = dashboard
             /\ store' = store]_vars

\* after an analytics fetch that succeeded, the third failure in a row has
\* just set the error in a production build
C30_Witness ==
    /\ ~DEV
    /\ lastOp.op = "useDashboardData.fetchData"
    /\ lastOp.status = "failed"
    /\ dashboard.data = "data"
    /\ failedSince = 3
    /\ dashboard.error = ConnectionLost
    /\ ~dashboard.isConnected

====
